---- MODULE Spec2Model ----
(***************************************************************************)
(* Perspective tree core of zaio_app: the tree validator/repairer of       *)
(* PerspectiveGenerateEngine, the move decision of PerspectiveMoveTrigger  *)
(* and the snapshot patch of StateUpdateTrigger.                           *)
(*                                                                         *)
(* Python values are tagged records [k, s, n, l]: k is the Python type,    *)
(* s the characters of a str (a sequence of one-character strings), n the  *)
(* number of an int or bool, l the items of a list or the (key, value)     *)
(* pairs of a dict in insertion order.                                     *)
(***************************************************************************)
EXTENDS Integers, Sequences, FiniteSets, TLC

VARIABLES pc, tree_reply, tree, cur_node, move_reply, decision,
          user_text, now, update_reply, patch

vars == <<pc, tree_reply, tree, cur_node, move_reply, decision,
          user_text, now, update_reply, patch>>

----------------------------------------------------------------------------
(* Python values *)

Str(s) == [k |-> "str", s |-> s, n |-> 0, l |-> <<>>]
Num(n) == [k |-> "int", s |-> <<>>, n |-> n, l |-> <<>>]
Bool(b) == [k |-> "bool", s |-> <<>>, n |-> IF b THEN 1 ELSE 0, l |-> <<>>]
None == [k |-> "None", s |-> <<>>, n |-> 0, l |-> <<>>]
List(l) == [k |-> "list", s |-> <<>>, n |-> 0, l |-> l]
Pair(key, v) == [k |-> "pair", s |-> key, n |-> 0, l |-> <<v>>]
Dict(l) == [k |-> "dict", s |-> <<>>, n |-> 0, l |-> l]
\* the exception a call ends with, in place of a returned value
Raised == [k |-> "raised", s |-> <<>>, n |-> 0, l |-> <<>>]

True == Bool(TRUE)
False == Bool(FALSE)

\* bool(v)
Truthy(v) ==
    CASE v.k = "str" -> Len(v.s) > 0
      [] v.k = "int" -> v.n # 0
      [] v.k = "bool" -> v.n # 0
      [] v.k = "None" -> FALSE
      [] OTHER -> Len(v.l) > 0

\* hash(v) succeeds: a list or a dict raises TypeError as a dict key or set member
Hashable(v) == v.k \notin {"list", "dict"}

IsStr(v) == v.k = "str"
IsDict(v) == v.k = "dict"
IsList(v) == v.k = "list"

\* dict operations, insertion order kept
KeySet(d) == {d.l[i].s : i \in 1..Len(d.l)}
HasKey(d, key) == key \in KeySet(d)
Index(d, key) == CHOOSE i \in 1..Len(d.l) : d.l[i].s = key
Get(d, key, default) == IF HasKey(d, key) THEN d.l[Index(d, key)].l[1] ELSE default
Put(d, key, v) ==
    IF HasKey(d, key)
    THEN Dict([d.l EXCEPT ![Index(d, key)] = Pair(key, v)])
    ELSE Dict(Append(d.l, Pair(key, v)))
SetDefault(d, key, v) == IF HasKey(d, key) THEN d ELSE Put(d, key, v)
\* `x in d` for a dict d (or a set of its keys): x is hashed first
InKeys(x, d) == IsStr(x) /\ x.s \in KeySet(d)

----------------------------------------------------------------------------
(* names *)

N0 == <<"N", "0">>
N1 == <<"N", "1">>
N2 == <<"N", "2">>
N9 == <<"N", "9">>
Empty == <<>>

K_tree_id == <<"tree_id">>
K_generated_at == <<"generated_at">>
K_root_id == <<"root_id">>
K_current_node_id == <<"current_node_id">>
K_nodes == <<"nodes">>
K_id == <<"id">>
K_title == <<"title">>
K_user_viewpoint == <<"user_viewpoint">>
K_our_viewpoint == <<"our_viewpoint">>
K_potential_need == <<"potential_need">>
K_children == <<"children">>
K_is_end == <<"is_end">>
K_move == <<"move">>
K_next_node_id == <<"next_node_id">>
K_need_new_tree == <<"need_new_tree">>
K_reason == <<"reason">>

----------------------------------------------------------------------------
(* PerspectiveGenerateEngine *)

\* the fixed texts of the source, one token each
PENDING == Str(<<"(pending)">>)
DEFAULT_NEED == List(<<Str(<<"need_sort_out">>), Str(<<"need_confirm">>)>>)

FallbackNode(id, title, uv, ov, need1, need2, children, is_end) ==
    Dict(<<Pair(K_id, Str(id)),
           Pair(K_title, Str(<<title>>)),
           Pair(K_user_viewpoint, Str(<<uv>>)),
           Pair(K_our_viewpoint, Str(<<ov>>)),
           Pair(K_potential_need, List(<<Str(<<need1>>), Str(<<need2>>)>>)),
           Pair(K_children, List(children)),
           Pair(K_is_end, Bool(is_end))>>)

\* _fallback_tree(tree_id, ts)
FallbackTree(tree_id, ts) ==
    Dict(<<Pair(K_tree_id, tree_id),
           Pair(K_generated_at, ts),
           Pair(K_root_id, Str(N0)),
           Pair(K_current_node_id, Str(N0)),
           Pair(K_nodes, Dict(<<
               Pair(N0, FallbackNode(N0, "title_N0", "user_N0", "our_N0",
                                     "need_mainline", "need_held", <<Str(N1)>>, FALSE)),
               Pair(N1, FallbackNode(N1, "title_N1", "user_N1", "our_N1",
                                     "need_calm", "need_clarity", <<Str(N2)>>, FALSE)),
               Pair(N2, FallbackNode(N2, "title_N2", "user_N2", "our_N2",
                                     "need_action", "need_company", <<>>, TRUE))>>))>>)

\* the body of the per-node repair loop, for the node n stored under nid
RepairNode(nid, n) ==
    LET a == IF IsDict(n) THEN n ELSE Dict(<<Pair(K_id, Str(nid))>>)
        b == SetDefault(a, K_id, Str(nid))
        c == SetDefault(b, K_title, PENDING)
        d == SetDefault(c, K_user_viewpoint, PENDING)
        e == SetDefault(d, K_our_viewpoint, PENDING)
        pn == Get(e, K_potential_need, None)
        f == IF ~IsList(pn) \/ ~Truthy(pn) THEN Put(e, K_potential_need, DEFAULT_NEED) ELSE e
        g == IF ~IsList(Get(f, K_children, None)) THEN Put(f, K_children, List(<<>>)) ELSE f
    IN  SetDefault(g, K_is_end, False)

RepairNodes(nodes) ==
    Dict([i \in 1..Len(nodes.l) |-> Pair(nodes.l[i].s, RepairNode(nodes.l[i].s, nodes.l[i].l[1]))])

\* n.get("children") or []
ChildrenOrEmpty(n) ==
    LET ch == Get(n, K_children, None) IN IF Truthy(ch) THEN ch.l ELSE <<>>

\* `c in node_ids` raises for some child of some node
FilterRaises(nodes) ==
    \E i \in 1..Len(nodes.l) :
        LET ch == ChildrenOrEmpty(nodes.l[i].l[1])
        IN  \E j \in 1..Len(ch) : ~Hashable(ch[j])

\* the children left unfiltered
FilterChildrenOff(nodes) == nodes

\* n["children"] = [c for c in (n.get("children") or []) if c in node_ids]
FilterChildren(nodes) ==
    LET Known(c) == InKeys(c, nodes)
    IN  Dict([i \in 1..Len(nodes.l) |->
              Pair(nodes.l[i].s,
                   Put(nodes.l[i].l[1], K_children,
                       List(SelectSeq(ChildrenOrEmpty(nodes.l[i].l[1]), Known))))])

\* the first key that is not the root, as the loop with break finds it; None if none
FirstNonRoot(nodes, root_id) ==
    LET idx == {i \in 1..Len(nodes.l) : Str(nodes.l[i].s) # root_id}
    IN  IF idx = {} THEN None
        ELSE Str(nodes.l[CHOOSE i \in idx : \A j \in idx : i <= j].s)

\* root gets one child when it has none: `if alt:` tests the key's truth value
EnsureRootChild(nodes, root_id) ==
    LET root == Get(nodes, root_id.s, None)
        alt == FirstNonRoot(nodes, root_id)
    IN  IF Truthy(root) /\ ~Truthy(Get(root, K_children, None)) /\ Truthy(alt)
        THEN Put(nodes, root_id.s, Put(root, K_children, List(<<alt>>)))
        ELSE nodes

\* the first key whose node has no children; None if none
FirstLeaf(nodes) ==
    LET idx == {i \in 1..Len(nodes.l) : ~Truthy(Get(nodes.l[i].l[1], K_children, None))}
    IN  IF idx = {} THEN None
        ELSE Str(nodes.l[CHOOSE i \in idx : \A j \in idx : i <= j].s)

\* every pass marks the first node not yet terminal, whether or not an end exists
EnsureEndEveryPass(nodes) ==
    LET idx == {i \in 1..Len(nodes.l) : ~Truthy(Get(nodes.l[i].l[1], K_is_end, None))}
        first == CHOOSE i \in idx : \A j \in idx : i <= j
    IN  IF idx = {} THEN nodes
        ELSE Put(nodes, nodes.l[first].s, Put(nodes.l[first].l[1], K_is_end, True))

\* at least one end node: `if leaf:` tests the key's truth value
EnsureEnd(nodes) ==
    LET MarkEnd(key) == Put(nodes, key, Put(Get(nodes, key, None), K_is_end, True))
        leaf == FirstLeaf(nodes)
    IN  IF \E i \in 1..Len(nodes.l) : Truthy(Get(nodes.l[i].l[1], K_is_end, None))
        THEN nodes
        ELSE IF Truthy(leaf) THEN MarkEnd(leaf.s)
             ELSE MarkEnd(nodes.l[Len(nodes.l)].s)

\* _normalize_and_validate(tree, fallback_ts, fallback_tree_id)
NormalizeAndValidate(cand, fallback_ts, fallback_tree_id) ==
    IF ~IsDict(cand) THEN FallbackTree(fallback_tree_id, fallback_ts)
    ELSE
    LET t1 == SetDefault(cand, K_tree_id, fallback_tree_id)
        t2 == SetDefault(t1, K_generated_at, fallback_ts)
        t3 == SetDefault(t2, K_root_id, Str(N0))
        t4 == SetDefault(t3, K_current_node_id, Get(t3, K_root_id, Str(N0)))
        nodes == Get(t4, K_nodes, None)
    IN  IF ~IsDict(nodes) \/ ~Truthy(nodes)
        THEN FallbackTree(Get(t4, K_tree_id, None), Get(t4, K_generated_at, None))
        ELSE IF ~Hashable(Get(t4, K_root_id, None)) THEN Raised
        ELSE
        LET t5 == IF ~InKeys(Get(t4, K_root_id, None), nodes)
                  THEN Put(t4, K_root_id,
                           IF HasKey(nodes, N0) THEN Str(N0) ELSE Str(nodes.l[1].s))
                  ELSE t4
        IN  IF ~Hashable(Get(t5, K_current_node_id, None)) THEN Raised
            ELSE
            LET t6 == IF ~InKeys(Get(t5, K_current_node_id, None), nodes)
                      THEN Put(t5, K_current_node_id, Get(t5, K_root_id, None))
                      ELSE t5
                repaired == RepairNodes(nodes)
            IN  IF FilterRaises(repaired) THEN Raised
                ELSE Put(t6, K_nodes,
                         EnsureEnd(EnsureRootChild(FilterChildren(repaired),
                                                   Get(t6, K_root_id, None))))

----------------------------------------------------------------------------
(* the model's reply, as _extract_json sees it *)

\* A reply is the text of a JSON value (body) in one of these forms:
\*   "json"    the text is the value alone
\*   "fenced"  the value inside a ``` or ```json fence
\*   "wrapped" prose without braces before and after the value
\*   "broken"  braces around text that is no JSON
\*   "empty"   the empty string
\*   "nonstr"  not a str at all (None)
Reply(form, body) == [form |-> form, body |-> body]

RECURSIVE Braces(_)
\* the dicts whose braces are outermost in the text of v, left to right
Braces(v) ==
    IF IsDict(v) THEN <<v>>
    ELSE IF IsList(v) /\ Len(v.l) > 0
         THEN Braces(v.l[1]) \o Braces(List(Tail(v.l)))
         ELSE <<>>

\* re.search(r"\{[\s\S]*\}") then json.loads: the span from the first { to the
\* last } is a JSON object only when one dict holds them both
BraceSpan(v) == IF Len(Braces(v)) = 1 THEN Braces(v)[1] ELSE None

\* _extract_json of perspective_generate_engine.py: a whole text that parses to a
\* non-dict falls through to the brace search
ExtractJson(reply) ==
    CASE reply.form \in {"json", "fenced"} ->
             IF IsDict(reply.body) THEN reply.body ELSE BraceSpan(reply.body)
      [] reply.form = "wrapped" -> BraceSpan(reply.body)
      [] OTHER -> None

\* generate_tree: extract, validate; the save's failure is swallowed
GenerateTreeResult(reply, ts, tree_id) ==
    NormalizeAndValidate(ExtractJson(reply), ts, tree_id)

----------------------------------------------------------------------------
(* inputs of generate_tree *)

MaxNodes == 2
MaxChildren == 2

TS == Str(<<"ts">>)
TREE_ID == Str(<<"tree_ts">>)

\* the selections of at most n items of pool, in pool order
SubSeqs(pool, n) ==
    LET Pick(S) == [i \in 1..Cardinality(S) |->
                      pool[CHOOSE x \in S : Cardinality({y \in S : y < x}) = i - 1]]
    IN  {Pick(S) : S \in {T \in SUBSET (1..Len(pool)) : Cardinality(T) <= n}}

\* the sequences of 1..n distinct members of S
InjSeqs(S, n) ==
    {q \in UNION {[1..m -> S] : m \in 1..n} :
        \A i, j \in 1..Len(q) : i # j => q[i] # q[j]}

Absent == [k |-> "absent", s |-> <<>>, n |-> 0, l |-> <<>>]

\* a dict of the given pairs, the absent ones left out
DictOf(pairs) == LET Present(p) == p.l[1] # Absent IN Dict(SelectSeq(pairs, Present))

NodeIds == {N0, N1, Empty}
ChildPool == <<Str(N1), Str(Empty), Str(N9)>>
ChildrenCands ==
    {Absent, Str(N1), List(<<Str(N1), List(<<>>)>>)}
    \cup {List(q) : q \in SubSeqs(ChildPool, MaxChildren)}
NodeCands ==
    {None}
    \cup {DictOf(<<Pair(K_children, ch)>>) : ch \in ChildrenCands}
    \cup {DictOf(<<Pair(K_is_end, e)>>) : e \in {True, Str(<<"n", "o">>)}}
RootCurrentCands ==
    {<<Absent, Absent>>, <<Str(N1), Absent>>, <<Str(N9), Str(N1)>>,
     <<None, Str(N9)>>, <<List(<<>>), Absent>>, <<Absent, Dict(<<>>)>>}
\* the nodes dict with the keys ks in this order, f[i] stored under ks[i]
NodesOf(ks, f) == Dict([i \in 1..Len(ks) |-> Pair(ks[i], f[i])])
TreeCand(rc, ns) ==
    DictOf(<<Pair(K_root_id, rc[1]), Pair(K_current_node_id, rc[2]), Pair(K_nodes, ns)>>)
OtherTreeReplies ==
    {Reply("fenced", FallbackTree(TREE_ID, TS)),
     Reply("wrapped", FallbackTree(TREE_ID, TS)),
     Reply("json", List(<<FallbackTree(TREE_ID, TS)>>)),
     Reply("json", List(<<Dict(<<>>), Dict(<<>>)>>)),
     Reply("wrapped", Num(1)), Reply("broken", None),
     Reply("empty", None), Reply("nonstr", None)}

NoReply == Reply("nonstr", None)

----------------------------------------------------------------------------
(* generate_tree on every reply *)

InitTree ==
    /\ pc = "start"
    /\ \/ \E rc \in RootCurrentCands, ks \in InjSeqs(NodeIds, MaxNodes) :
            \E f \in [1..Len(ks) -> NodeCands] :
                tree_reply = Reply("json", TreeCand(rc, NodesOf(ks, f)))
       \/ \E rc \in RootCurrentCands, ns \in {Absent, Dict(<<>>), List(<<>>)} :
            tree_reply = Reply("json", TreeCand(rc, ns))
       \/ tree_reply \in OtherTreeReplies
    /\ tree = None
    /\ cur_node = None
    /\ move_reply = NoReply
    /\ decision = None
    /\ user_text = None
    /\ now = 0
    /\ update_reply = NoReply
    /\ patch = None

GenerateTree ==
    /\ pc = "start"
    /\ tree' = GenerateTreeResult(tree_reply, TS, TREE_ID)
    /\ pc' = IF tree' = Raised THEN "raised" ELSE "ready"
    /\ UNCHANGED <<tree_reply, cur_node, move_reply, decision,
                   user_text, now, update_reply, patch>>

NextTree == GenerateTree

SpecTree == InitTree /\ [][NextTree]_vars

----------------------------------------------------------------------------
(* _normalize_and_validate run again on the tree it returned *)

\* nodes that give children and is_end together; None stands for a non-dict node
RevalidateNodeCands ==
    {None}
    \cup {DictOf(<<Pair(K_children, ch), Pair(K_is_end, e)>>) :
            ch \in {Absent} \cup {List(q) : q \in SubSeqs(ChildPool, MaxChildren)},
            e \in {None, True}}
RevalidateRootCurrentCands == {<<Absent, Absent>>, <<Str(N9), Str(N1)>>}
\* candidates without nodes, whose own tree_id and generated_at go into the fallback tree
RevalidateIdCands ==
    {DictOf(<<Pair(K_tree_id, ti), Pair(K_generated_at, ga)>>) :
        ti \in {Absent, None, List(<<>>)}, ga \in {Absent, Num(7)}}

InitRevalidate ==
    /\ pc = "start"
    /\ \/ \E rc \in RevalidateRootCurrentCands, ks \in InjSeqs(NodeIds, MaxNodes) :
            \E f \in [1..Len(ks) -> RevalidateNodeCands] :
                tree_reply = Reply("json", TreeCand(rc, NodesOf(ks, f)))
       \/ \E c \in RevalidateIdCands : tree_reply = Reply("json", c)
       \/ tree_reply \in OtherTreeReplies
    /\ tree = None
    /\ cur_node = None
    /\ move_reply = NoReply
    /\ decision = None
    /\ user_text = None
    /\ now = 0
    /\ update_reply = NoReply
    /\ patch = None

\* the second pass, with the same fallback tree id and timestamp
Revalidate ==
    /\ pc = "ready"
    /\ tree' = NormalizeAndValidate(tree, TS, TREE_ID)
    /\ pc' = IF tree' = Raised THEN "raised" ELSE "revalidated"
    /\ UNCHANGED <<tree_reply, cur_node, move_reply, decision,
                   user_text, now, update_reply, patch>>

NextRevalidate == GenerateTree \/ Revalidate

SpecRevalidate == InitRevalidate /\ [][NextRevalidate]_vars

----------------------------------------------------------------------------
(* PerspectiveMoveTrigger *)

\* _extract_json of perspective_move_trigger.py: a whole text that parses to a
\* non-dict is given up at once
ExtractJsonMove(reply) ==
    CASE reply.form \in {"json", "fenced"} ->
             IF IsDict(reply.body) THEN reply.body ELSE None
      [] reply.form = "wrapped" -> BraceSpan(reply.body)
      [] OTHER -> None

DEFAULT_REASON == Str(<<"(tree no longer fits)">>)

MoveInfo(move, next_node_id, need_new_tree, reason) ==
    Dict(<<Pair(K_move, Bool(move)),
           Pair(K_next_node_id, next_node_id),
           Pair(K_need_new_tree, Bool(need_new_tree)),
           Pair(K_reason, reason)>>)

\* list(x): the items of a list, the characters of a str, the keys of a dict;
\* Raised for what cannot be iterated
ListOf(x) ==
    CASE x.k = "list" -> List(x.l)
      [] x.k = "str" -> List([i \in 1..Len(x.s) |-> Str(<<x.s[i]>>)])
      [] x.k = "dict" -> List([i \in 1..Len(x.l) |-> Str(x.l[i].s)])
      [] OTHER -> Raised

\* children = list(current_node.get("children") or []), [] on any exception
ChildrenOf(current_node) ==
    IF ~IsDict(current_node) THEN <<>>
    ELSE LET ch == Get(current_node, K_children, None)
             got == IF Truthy(ch) THEN ListOf(ch) ELSE List(<<>>)
         IN  IF got = Raised THEN <<>> ELSE got.l

\* the membership test left out
InSeqAny(x, q) == TRUE

\* next_node_id in children
InSeq(x, q) == \E i \in 1..Len(q) : q[i] = x

\* decide_move, from the model's reply on
DecideMove(current_node, reply) ==
    LET parsed == ExtractJsonMove(reply)
        obj == IF Truthy(parsed) THEN parsed ELSE Dict(<<>>)
        move == Truthy(Get(obj, K_move, False))
        need_new_tree == Truthy(Get(obj, K_need_new_tree, False))
        reason == IF IsStr(Get(obj, K_reason, None)) THEN Get(obj, K_reason, None)
                  ELSE Str(<<>>)
        children == ChildrenOf(current_node)
        next_node_id == IF IsStr(Get(obj, K_next_node_id, None))
                        THEN Get(obj, K_next_node_id, None) ELSE None
    IN  IF need_new_tree
        THEN MoveInfo(FALSE, None, TRUE, IF Truthy(reason) THEN reason ELSE DEFAULT_REASON)
        ELSE IF ~(Len(children) > 0) THEN MoveInfo(FALSE, None, FALSE, reason)
        ELSE IF move
             THEN IF ~InSeq(next_node_id, children)
                  THEN MoveInfo(FALSE, None, FALSE, reason)
                  ELSE MoveInfo(TRUE, next_node_id, FALSE, reason)
             ELSE MoveInfo(FALSE, None, FALSE, reason)

----------------------------------------------------------------------------
(* inputs of decide_move *)

MoveCands ==
    {DictOf(<<Pair(K_move, m), Pair(K_next_node_id, x),
              Pair(K_need_new_tree, t), Pair(K_reason, r)>>) :
        m \in {Absent, True, False, Str(<<"m", "o", "v", "e">>), Str(<<"s", "t", "a", "y">>),
               Str(<<"n", "o", "n", "e">>), Str(<<>>), Num(0)},
        x \in {Absent, None, Str(N1), Str(N2), Str(N9), Str(<<"N">>), Num(1)},
        t \in {Absent, True, False, Str(<<"n", "o">>)},
        r \in {Absent, Str(<<"r">>)}}
WholeMove == DictOf(<<Pair(K_move, True), Pair(K_next_node_id, Str(N1))>>)
MoveReplies ==
    {Reply("json", c) : c \in MoveCands}
    \cup {Reply("fenced", WholeMove), Reply("wrapped", WholeMove),
          Reply("json", List(<<WholeMove>>)), Reply("wrapped", List(<<WholeMove>>)),
          Reply("wrapped", List(<<WholeMove, WholeMove>>)),
          Reply("json", Str(N1)), Reply("broken", None),
          Reply("empty", None), Reply("nonstr", None)}

NodeChildPool == <<Str(N1), Str(N2), None, Num(1)>>
CurrentNodes ==
    {None, List(<<Str(<<"children">>)>>), Dict(<<>>)}
    \cup {Dict(<<Pair(K_children, ch)>>) :
            ch \in {None, Num(5), Str(N1), Dict(<<Pair(N1, Dict(<<>>))>>)}
                   \cup {List(q) : q \in SubSeqs(NodeChildPool, MaxChildren)}}

----------------------------------------------------------------------------
(* decide_move on every current node and reply *)

InitMove ==
    /\ pc = "start"
    /\ cur_node \in CurrentNodes
    /\ tree_reply = NoReply
    /\ tree = None
    /\ move_reply = NoReply
    /\ decision = None
    /\ user_text = None
    /\ now = 0
    /\ update_reply = NoReply
    /\ patch = None

DecideMoveCall ==
    /\ pc = "start"
    /\ \E r \in MoveReplies :
        /\ move_reply' = r
        /\ decision' = DecideMove(cur_node, r)
    /\ pc' = "decided"
    /\ UNCHANGED <<tree_reply, tree, cur_node, user_text, now, update_reply, patch>>

NextMove == DecideMoveCall

SpecMove == InitMove /\ [][NextMove]_vars

----------------------------------------------------------------------------
(* a conversation: one tree generated, then turns of decide_move on the current
   node, the caller advancing current_node_id when the decision says move *)

NavChildPool == <<Str(N1), Str(Empty), Str(N9)>>
NavNodeCands ==
    {Dict(<<Pair(K_children, List(q))>>) : q \in SubSeqs(NavChildPool, MaxChildren)}
NavReplies ==
    {Reply("json", DictOf(<<Pair(K_move, True), Pair(K_next_node_id, x)>>)) :
        x \in {Absent, Str(N0), Str(N1), Str(Empty), Str(N9)}}
    \cup {Reply("json", DictOf(<<Pair(K_move, True), Pair(K_next_node_id, Str(N1)),
                                 Pair(K_need_new_tree, True)>>)),
          Reply("json", DictOf(<<Pair(K_move, False), Pair(K_next_node_id, Str(N1))>>))}

InitNav ==
    /\ pc = "start"
    /\ \/ \E ks \in InjSeqs(NodeIds, MaxNodes) :
            \E f \in [1..Len(ks) -> NavNodeCands] :
                tree_reply = Reply("json", Dict(<<Pair(K_nodes, NodesOf(ks, f))>>))
       \/ tree_reply = Reply("empty", None)
    /\ tree = None
    /\ cur_node = None
    /\ move_reply = NoReply
    /\ decision = None
    /\ user_text = None
    /\ now = 0
    /\ update_reply = NoReply
    /\ patch = None

\* the caller's turn: decide_move with current_node = nodes[current_node_id]
DecideOnTree ==
    /\ pc = "ready"
    /\ cur_node' = Get(Get(tree, K_nodes, None), Get(tree, K_current_node_id, None).s, None)
    /\ \E r \in NavReplies :
        /\ move_reply' = r
        /\ decision' = DecideMove(cur_node', r)
    /\ pc' = "moving"
    /\ UNCHANGED <<tree_reply, tree, user_text, now, update_reply, patch>>

\* the caller sets current_node_id to next_node_id when the decision has move = true
ApplyDecision ==
    /\ pc = "moving"
    /\ tree' = IF Get(decision, K_move, None) = True
               THEN Put(tree, K_current_node_id, Get(decision, K_next_node_id, None))
               ELSE tree
    /\ pc' = "ready"
    /\ UNCHANGED <<tree_reply, cur_node, move_reply, decision,
                   user_text, now, update_reply, patch>>

NextNav == GenerateTree \/ DecideOnTree \/ ApplyDecision

SpecNav == InitNav /\ [][NextNav]_vars

----------------------------------------------------------------------------
(* StateUpdateTrigger *)

K_last_update_ts == <<"_last_update_ts">>
K_last_user_text == <<"_last_user_text">>
K_emotion == <<"emotion">>
K_risk == <<"risk">>
K_bogus_key == <<"bogus_key">>

ALLOWED_KEYS ==
    {<<"emotion">>, <<"need">>, <<"energy">>, <<"activity">>, <<"concern">>,
     <<"body_state">>, <<"social_state">>, <<"topic">>, <<"mood">>, <<"risk">>,
     <<"sleep">>, <<"focus">>, K_last_update_ts, K_last_user_text}

\* the longest string _clean_values lets through
MaxStrLen == 20

UpperCase == <<"A", "B", "C", "D", "E", "F", "G", "H", "I", "J", "K", "L", "M",
               "N", "O", "P", "Q", "R", "S", "T", "U", "V", "W", "X", "Y", "Z">>
LowerCase == <<"a", "b", "c", "d", "e", "f", "g", "h", "i", "j", "k", "l", "m",
               "n", "o", "p", "q", "r", "s", "t", "u", "v", "w", "x", "y", "z">>
Whitespace == {" ", "\t", "\n"}

\* str.lower()
LowerChar(c) ==
    IF \E i \in 1..Len(UpperCase) : UpperCase[i] = c
    THEN LowerCase[CHOOSE i \in 1..Len(UpperCase) : UpperCase[i] = c]
    ELSE c
Lower(q) == [i \in 1..Len(q) |-> LowerChar(q[i])]

\* str.strip()
Strip(q) ==
    LET keep == {i \in 1..Len(q) : q[i] \notin Whitespace}
    IN  IF keep = {} THEN <<>>
        ELSE SubSeq(q, CHOOSE i \in keep : \A j \in keep : i <= j,
                       CHOOSE i \in keep : \A j \in keep : j <= i)

RECURSIVE Digits(_)
\* the decimal digits of n >= 0
Digits(n) ==
    LET d == <<"0", "1", "2", "3", "4", "5", "6", "7", "8", "9">>[(n % 10) + 1]
    IN  IF n < 10 THEN <<d>> ELSE Digits(n \div 10) \o <<d>>

RECURSIVE Repr(_)
RECURSIVE ReprItems(_)
\* repr(v), which str(v) is for a list or a dict
Repr(v) ==
    CASE v.k = "str" -> <<"'">> \o v.s \o <<"'">>
      [] v.k = "int" -> IF v.n < 0 THEN <<"-">> \o Digits(0 - v.n) ELSE Digits(v.n)
      [] v.k = "bool" -> IF v.n = 1 THEN <<"T", "r", "u", "e">> ELSE <<"F", "a", "l", "s", "e">>
      [] v.k = "None" -> <<"N", "o", "n", "e">>
      [] v.k = "pair" -> <<"'">> \o v.s \o <<"'", ":", " ">> \o Repr(v.l[1])
      [] v.k = "list" -> <<"[">> \o ReprItems(v.l) \o <<"]">>
      [] OTHER -> <<"{">> \o ReprItems(v.l) \o <<"}">>
ReprItems(q) ==
    IF Len(q) = 0 THEN <<>>
    ELSE IF Len(q) = 1 THEN Repr(q[1])
    ELSE Repr(q[1]) \o <<",", " ">> \o ReprItems(Tail(q))

\* _parse_json_obj: nothing for an empty text, else as the engine's _extract_json
ParseJsonObj(reply) ==
    IF reply.form \in {"empty", "nonstr"} THEN None ELSE ExtractJson(reply)

\* the "null"/"none" test left out
IsNullWordNever(vv) == FALSE

\* vv.lower() in {"null", "none"}
IsNullWord(vv) == Lower(vv) \in {<<"n", "u", "l", "l">>, <<"n", "o", "n", "e">>}

\* the truncation left out
TruncateOff(vv) == vv

\* if len(vv) > 20: vv = vv[:20]
Truncate(vv) == IF Len(vv) > MaxStrLen THEN SubSeq(vv, 1, MaxStrLen) ELSE vv

\* the allow-list left out
AllowedKeyAny(key) == TRUE

\* k in self.ALLOWED_KEYS
AllowedKey(key) == key \in ALLOWED_KEYS

\* one (key, value) of data in _clean_values: the pairs it adds to cleaned
CleanPair(p) ==
    LET v == p.l[1]
        vv == Strip(v.s)
    IN  IF p.s \in {K_last_update_ts, K_last_user_text} THEN <<p>>
        ELSE IF v.k = "None" THEN <<>>
        ELSE IF v.k = "str"
             THEN IF Len(vv) = 0 \/ IsNullWord(vv) THEN <<>>
                  ELSE <<Pair(p.s, Str(Truncate(vv)))>>
        ELSE IF v.k \in {"int", "bool"} THEN <<p>>
        ELSE <<Pair(p.s, Str(Repr(v)))>>

RECURSIVE CleanPairs(_)
CleanPairs(q) == IF Len(q) = 0 THEN <<>> ELSE CleanPair(q[1]) \o CleanPairs(Tail(q))

\* _clean_values(data)
CleanValues(data) == Dict(CleanPairs(data.l))

\* data = {k: v for k, v in data.items() if k in self.ALLOWED_KEYS}
FilterKeys(data) == LET Ok(p) == AllowedKey(p.s) IN Dict(SelectSeq(data.l, Ok))

\* infer_updates, from the model's reply on, int(time.time()) being ts
InferUpdates(text, reply, ts) ==
    LET fallback == Dict(<<Pair(K_last_update_ts, Num(ts)), Pair(K_last_user_text, text)>>)
        data == ParseJsonObj(reply)
    IN  IF reply.form \in {"empty", "nonstr"} THEN fallback
        ELSE IF ~IsDict(data) THEN fallback
        ELSE LET d1 == SetDefault(data, K_last_update_ts, Num(ts))
                 d2 == SetDefault(d1, K_last_user_text, text)
                 cleaned == CleanValues(FilterKeys(d2))
             IN  IF Truthy(cleaned) THEN cleaned ELSE fallback

----------------------------------------------------------------------------
(* inputs of infer_updates *)

\* how far past MaxStrLen the long strings of the inputs go
LongExtra == 2
MaxNow == 2

Rep(c, n) == [i \in 1..n |-> c]
LongStrings == {Str(Rep("x", MaxStrLen + d)) : d \in 0..LongExtra}
ValueCands ==
    {Absent, None, Str(<<>>), Str(<<" ">>), Str(<<"n", "u", "l", "l">>),
     Str(<<" ", "N", "o", "n", "e", " ">>), Str(<<"o", "k">>), Str(<<" ", "o", "k", "\n">>),
     Str(Rep("x", MaxStrLen - 1) \o Rep(" ", LongExtra)),
     Num(0), Num(17), True, List(<<>>), List(<<None>>),
     List([i \in 1..(MaxStrLen \div 3) + LongExtra |-> Num(i % 10)]),
     Dict(<<>>), Dict(<<Pair(<<"a">>, Str(<<"b">>))>>)}
    \cup LongStrings
UserTexts == {Str(<<>>), Str(<<"h", "i">>), Str(<<"N", "U", "L", "L">>)} \cup LongStrings
UpdateCand(e, r, b, ts, ut) ==
    DictOf(<<Pair(K_emotion, e), Pair(K_risk, r), Pair(K_bogus_key, b),
             Pair(K_last_update_ts, ts), Pair(K_last_user_text, ut)>>)
WholeUpdate == UpdateCand(Str(<<"o", "k">>), Absent, Absent, Absent, Absent)
OtherUpdateReplies ==
    {Reply("fenced", WholeUpdate), Reply("wrapped", WholeUpdate),
     Reply("json", List(<<WholeUpdate>>)), Reply("json", List(<<Num(1)>>)),
     Reply("json", Dict(<<>>)), Reply("broken", None),
     Reply("empty", None), Reply("nonstr", None)}

----------------------------------------------------------------------------
(* infer_updates on every user text and reply *)

InitUpdate ==
    /\ pc = "start"
    /\ user_text \in UserTexts
    /\ now \in 1..MaxNow
    /\ tree_reply = NoReply
    /\ tree = None
    /\ cur_node = None
    /\ move_reply = NoReply
    /\ decision = None
    /\ update_reply = NoReply
    /\ patch = None

InferUpdatesCall ==
    /\ pc = "start"
    /\ \/ \E e \in ValueCands, r \in {Absent, Str(<<"h", "i", "g", "h">>), Num(3)},
            b \in {Absent, Str(<<"y">>)},
            ts \in {Absent, None, Num(5), Str(<<"a", "b", "c">>)},
            ut \in {Absent, None, Str(<<"o", "t", "h", "e", "r">>), Str(Rep("z", MaxStrLen + 1))} :
            update_reply' = Reply("json", UpdateCand(e, r, b, ts, ut))
       \/ update_reply' \in OtherUpdateReplies
    /\ patch' = InferUpdates(user_text, update_reply', now)
    /\ pc' = "patched"
    /\ UNCHANGED <<tree_reply, tree, cur_node, move_reply, decision, user_text, now>>

NextUpdate == InferUpdatesCall

SpecUpdate == InitUpdate /\ [][NextUpdate]_vars

----------------------------------------------------------------------------
(* claims about the validator/repairer, under SpecTree *)

TreeNodes == Get(tree, K_nodes, None)
NodeAt(i) == TreeNodes.l[i].l[1]
RootInNodes == InKeys(Get(tree, K_root_id, None), TreeNodes)
CurrentInNodes == InKeys(Get(tree, K_current_node_id, None), TreeNodes)
NoDanglingChild ==
    \A i \in 1..Len(TreeNodes.l) :
        LET ch == Get(NodeAt(i), K_children, None)
        IN  IsList(ch) /\ \A j \in 1..Len(ch.l) : InKeys(ch.l[j], TreeNodes)
\* is_end is read as the code reads it, by its truth value
SomeEndNode == \E i \in 1..Len(TreeNodes.l) : Truthy(Get(NodeAt(i), K_is_end, None))
RootHasChild ==
    Truthy(Get(Get(TreeNodes, Get(tree, K_root_id, None).s, None), K_children, None))

\* C1: every tree _normalize_and_validate returns has root_id and current_node_id
\* among the keys of nodes, no child id outside the keys of nodes, at least one
\* end node, and a root with a child whenever nodes has more than one key.
C1_ReturnedTreeIsValid ==
    pc = "ready" =>
        /\ IsDict(tree) /\ IsDict(TreeNodes)
        /\ RootInNodes
        /\ CurrentInNodes
        /\ NoDanglingChild
        /\ SomeEndNode
        /\ (Len(TreeNodes.l) > 1 => RootHasChild)

\* C2: _normalize_and_validate, and so generate_tree, never raises and never returns
\* None, whatever the JSON extractor produced from the reply.
C2_NeverRaises ==
    pc # "start" => (pc # "raised" /\ tree # Raised /\ tree # None)

----------------------------------------------------------------------------
(* claims about decide_move, under SpecMove *)

D_move == Get(decision, K_move, None)
D_next == Get(decision, K_next_node_id, None)
D_new_tree == Get(decision, K_need_new_tree, None)

\* what the model's reply says, {} when no JSON object is recovered
Said == LET parsed == ExtractJsonMove(move_reply)
        IN  IF IsDict(parsed) THEN parsed ELSE Dict(<<>>)
SaidMove == Get(Said, K_move, None)
SaidNext == Get(Said, K_next_node_id, None)
SaidNewTree == Get(Said, K_need_new_tree, None)

\* the members of current_node's children, as Python's `in` finds them
ChildMembers ==
    IF IsDict(cur_node) /\ HasKey(cur_node, K_children)
          /\ Get(cur_node, K_children, None).k \in {"list", "str", "dict"}
    THEN LET q == ListOf(Get(cur_node, K_children, None)).l
         IN  {q[i] : i \in 1..Len(q)}
    ELSE {}

IsStay == D_move = False /\ D_next = None /\ D_new_tree = False

\* C3: in every decision, need_new_tree = true implies move = false and
\* next_node_id = null; move = true implies next_node_id is one of current_node's
\* children and need_new_tree = false; move = false implies next_node_id = null.
C3_DecisionInvariant ==
    pc = "decided" =>
        /\ D_move \in {True, False} /\ D_new_tree \in {True, False}
        /\ (D_new_tree = True => D_move = False /\ D_next = None)
        /\ (D_move = True => D_next \in ChildMembers /\ D_new_tree = False)
        /\ (D_move = False => D_next = None)

\* a reply claiming both a new tree and a move to a real child was repaired
C3_Witness ==
    /\ pc = "decided"
    /\ Truthy(SaidNewTree) /\ Truthy(SaidMove) /\ SaidNext \in ChildMembers
    /\ D_new_tree = True /\ D_move = False

\* C4: the decision is the fixed-priority rule applied to the parsed reply: (a) a
\* truthy need_new_tree gives the new-tree decision; (b) else no children gives
\* stay; (c) else a truthy move gives the move to next_node_id X when X is a string
\* among the children, and stay when it is not; (d) else stay.
C4_PriorityRule ==
    pc = "decided" =>
        IF Truthy(SaidNewTree)
        THEN D_move = False /\ D_next = None /\ D_new_tree = True
        ELSE IF ChildMembers = {} THEN IsStay
        ELSE IF Truthy(SaidMove)
             THEN IF IsStr(SaidNext) /\ SaidNext \in ChildMembers
                  THEN D_move = True /\ D_next = SaidNext /\ D_new_tree = False
                  ELSE IsStay
             ELSE IsStay

\* C9: a reply in the prompt's own format with "move": "stay" or "move": "none" and
\* need_new_tree false yields move = false and next_node_id = null, even with a
\* next_node_id that is one of the children.
C9_StayReplyStays ==
    (/\ pc = "decided"
     /\ SaidMove \in {Str(<<"s", "t", "a", "y">>), Str(<<"n", "o", "n", "e">>)}
     /\ SaidNewTree = False)
    => (D_move = False /\ D_next = None)

----------------------------------------------------------------------------
(* claims about navigation, under SpecNav *)

\* C10: from any tree the validator returned, after any number of turns of
\* decide_move on nodes[current_node_id], each move applied by the caller,
\* current_node_id is still a key of nodes.
C10_NavigationClosure ==
    pc \in {"ready", "moving"} => (IsDict(tree) /\ CurrentInNodes)

\* two moves were applied and the conversation stands on a node other than the root
C10_Witness ==
    /\ pc = "ready"
    /\ Get(decision, K_move, None) = True
    /\ Get(tree, K_current_node_id, None) = Get(decision, K_next_node_id, None)
    /\ Get(tree, K_current_node_id, None) # Get(tree, K_root_id, None)
    /\ Get(cur_node, K_id, None) # Get(tree, K_root_id, None)

----------------------------------------------------------------------------
(* claims about infer_updates, under SpecUpdate *)

HeartbeatKeys == {K_last_update_ts, K_last_user_text}
\* what the model's reply says, None when no JSON object is recovered
SaidUpdate == ParseJsonObj(update_reply)
PatchValue(i) == patch.l[i].l[1]
PatchKey(i) == patch.l[i].s

\* C5: every patch holds _last_update_ts and _last_user_text and no key outside
\* ALLOWED_KEYS.
C5_HeartbeatAndAllowList ==
    pc = "patched" =>
        /\ IsDict(patch)
        /\ HasKey(patch, K_last_update_ts) /\ HasKey(patch, K_last_user_text)
        /\ KeySet(patch) \subseteq ALLOWED_KEYS

\* the reply carried a key outside the allow-list beside an allowed one
C5_Witness ==
    /\ pc = "patched"
    /\ IsDict(SaidUpdate) /\ HasKey(SaidUpdate, K_bogus_key)
    /\ ~HasKey(SaidUpdate, K_last_update_ts)
    /\ HasKey(patch, K_emotion) /\ ~HasKey(patch, K_bogus_key)

\* C6 as stated: no string value of the patch, under any key, is longer than 20
\* characters.
C6_NoLongString ==
    pc = "patched" =>
        \A i \in 1..Len(patch.l) : IsStr(PatchValue(i)) => Len(PatchValue(i).s) <= MaxStrLen

\* C6 as amended: a value the reply gave as a string under a key other than the
\* two heartbeat keys is at most 20 characters long in the patch.
C6_ReplyStringsAreShort ==
    pc = "patched" =>
        \A i \in 1..Len(patch.l) :
            (/\ PatchKey(i) \notin HeartbeatKeys
             /\ IsDict(SaidUpdate)
             /\ IsStr(Get(SaidUpdate, PatchKey(i), None)))
            => (IsStr(PatchValue(i)) /\ Len(PatchValue(i).s) <= MaxStrLen)

\* a reply string longer than 20 characters reached the patch cut to 20
C6_Witness ==
    /\ pc = "patched"
    /\ IsDict(SaidUpdate)
    /\ Len(Get(SaidUpdate, K_emotion, None).s) > MaxStrLen
    /\ HasKey(patch, K_emotion)
    /\ Len(Get(patch, K_emotion, None).s) = MaxStrLen

\* a value that is null, blank, or "null"/"none" in any letter case
Meaningless(v) ==
    \/ v = None
    \/ IsStr(v) /\ (Strip(v.s) = <<>>
                    \/ Lower(v.s) \in {<<"n", "u", "l", "l">>, <<"n", "o", "n", "e">>})

\* C7 as stated: no field of the patch is null, blank, or "null"/"none".
C7_NoMeaninglessValue ==
    pc = "patched" => \A i \in 1..Len(patch.l) : ~Meaningless(PatchValue(i))

\* C7 as amended: no field of the patch other than the two heartbeat fields is
\* null, blank, or "null"/"none".
C7_NoMeaninglessField ==
    pc = "patched" =>
        \A i \in 1..Len(patch.l) :
            PatchKey(i) \notin HeartbeatKeys => ~Meaningless(PatchValue(i))

\* the reply said " None " for emotion, and the patch has risk but no emotion
C7_Witness ==
    /\ pc = "patched"
    /\ IsDict(SaidUpdate)
    /\ Get(SaidUpdate, K_emotion, None) = Str(<<" ", "N", "o", "n", "e", " ">>)
    /\ HasKey(patch, K_risk) /\ ~HasKey(patch, K_emotion)

\* C8: in every patch _last_user_text is the call's user_text and _last_update_ts
\* is an integer, whatever the reply carries under these keys.
C8_HeartbeatFromCall ==
    pc = "patched" =>
        /\ Get(patch, K_last_user_text, None) = user_text
        /\ Get(patch, K_last_update_ts, None).k = "int"

----------------------------------------------------------------------------
(* claims about the validator/repairer run twice, under SpecRevalidate *)

\* the candidate the first pass was given
FirstCand == ExtractJson(tree_reply)
CandNodes == Get(FirstCand, K_nodes, None)
CandRoot == Get(CandNodes, N0, None)
TreeRoot == Get(TreeNodes, Get(tree, K_root_id, None).s, None)
EndCount(nodes) ==
    Cardinality({i \in 1..Len(nodes.l) : Truthy(Get(nodes.l[i].l[1], K_is_end, None))})

\* C11: _normalize_and_validate is idempotent: run on the tree it returned, with the
\* same fallback tree id and timestamp, it returns a tree equal to that tree (the
\* fallback tree included), so the second pass adds no child to the root and marks
\* no further node as terminal.
C11_Idempotent ==
    [][pc = "ready" => (pc' = "revalidated" /\ tree' = tree)]_vars

\* a second pass has run on a tree whose root got its child, and whose end node
\* got its mark, from the first pass
C11_Witness ==
    /\ pc = "revalidated"
    /\ IsDict(CandNodes) /\ Len(CandNodes.l) > 1
    /\ IsDict(CandRoot) /\ ~Truthy(Get(CandRoot, K_children, None))
    /\ EndCount(CandNodes) = 0
    /\ Len(Get(TreeRoot, K_children, None).l) = 1
    /\ EndCount(TreeNodes) = 1

\* a second pass has run on the hardcoded fallback tree
C11_FallbackWitness ==
    /\ pc = "revalidated"
    /\ tree_reply = Reply("broken", None)
    /\ tree = FallbackTree(TREE_ID, TS)

====
